---- MODULE Spec2Model ----
(***************************************************************************)
(* A model of tukai, a terminal typing-practice tool.                      *)
(*                                                                         *)
(* The sources hold three parts, each with its own specification below:    *)
(*   SpecApp    terminal.rs (App) driving windows/typing_window.rs         *)
(*              (TypingWindow): the typing session, its cursor and its     *)
(*              error counter, one render pass per loop iteration.         *)
(*   SpecStore  storage/storage_handler.rs (StorageHandler): the stats     *)
(*              store over a small file system.                            *)
(*   SpecTukai  app.rs (Tukai): the event loop with ticks, the two         *)
(*              screens and the store.  TypingScreen, which app.rs calls,  *)
(*              is not among the sources and is modelled from the          *)
(*              specification text.                                        *)
(* Structs are records, methods are operators from records to records.     *)
(***************************************************************************)
EXTENDS Integers, Sequences, FiniteSets, TLC

VARIABLES
  app,              \* terminal.rs: struct App (with its TypingWindow)
  overflow_checks,  \* build profile: TRUE = arithmetic overflow panics (debug),
                    \*                FALSE = it wraps (release)
  render_paragraph, \* whether Window::render, which is not among the sources,
                    \* builds the typing window's paragraph (get_paragraph)
  last_event,       \* the event the loop consumed last
  store,            \* storage_handler.rs: struct StorageHandler
  fs,               \* the files of the file system, by path
  call,             \* the StorageHandler method called last and its result
  defaulted,        \* the store was built as new(path).default() and that
                    \* returned Ok
  tukai,            \* app.rs: struct Tukai (with its screens, config and store)
  inserted,         \* records the store accepted from the current typing session
  nav_consumed      \* the typing screen has reported a bare Esc, Left or Right
                    \* consumed in this run

vars == <<app, overflow_checks, render_paragraph, last_event, store, fs, call, defaulted, tukai,
         inserted, nav_consumed>>
appVars == <<app, overflow_checks, render_paragraph>>
storeVars == <<store, call, defaulted>>
tukaiVars == <<tukai, inserted, nav_consumed>>

(***************************************************************************)
(* Bounds of the model.                                                    *)
(***************************************************************************)
TextLen   == 2   \* length of the generated text (the program generates 10)
MaxInput  == 3   \* longest input the model types (the program has no limit)
MaxErrors == 5   \* largest error counter the model follows
MaxStats  == 2   \* most records the model keeps in the Stats sequence
MinDuration == 2 \* the shortest typing duration, in seconds (ticks)
MaxTime   == 3   \* largest elapsed-seconds counter the model follows
MaxRecords == 1  \* most records the model lets one run of Tukai insert

Alphabet == {"a", "b"}

\* The characters a key can carry: those of the texts, and one that UTF-8
\* encodes in two bytes
KeyChars == Alphabet \cup {"é"}

\* char::len_utf8
LenUtf8(c) == IF c \in Alphabet THEN 1 ELSE 2

\* String::len: the length in bytes
RECURSIVE StringLen(_)
StringLen(s) == IF s = <<>> THEN 0 ELSE LenUtf8(Head(s)) + StringLen(Tail(s))

\* usize arithmetic is modulo 2^64 in the program; the model keeps the
\* wrap-around but scales the modulus to what TLC's integers can hold.  No
\* behaviour of the model performs enough steps to tell the two apart.
UsizeModulus == 1073741824
UsizeMax == UsizeModulus - 1

(***************************************************************************)
(* Key events (crossterm KeyEvent: code, character, control modifier).     *)
(***************************************************************************)
Key(code, ch, ctrl) == [code |-> code, ch |-> ch, ctrl |-> ctrl]

NoEvent == Key("None", "", FALSE)

PlainKeys ==
  {Key("Char", c, FALSE) : c \in KeyChars}
  \cup {Key(k, "", FALSE) : k \in {"Backspace", "Left", "Right", "Esc", "Enter"}}

RECURSIVE StringsOfLen(_)
StringsOfLen(n) ==
  IF n = 0 THEN {<<>>}
  ELSE {Append(s, c) : s \in StringsOfLen(n - 1), c \in Alphabet}

(***************************************************************************)
(* windows/typing_window.rs                                                *)
(***************************************************************************)
\* Stats::default
StatsDefault == [errors_count |-> 0]

\* TypingWindow::default, for a generated text
TypingWindowDefault(text) ==
  [generated_text |-> text,
   input          |-> <<>>,
   stats          |-> StatsDefault,
   cursor_index   |-> 0,
   previous_index |-> 0,
   panic          |-> FALSE]

\* usize `x += 1`
UsizeInc(x) == (x + 1) % UsizeModulus
\* usize `x -= 1`
UsizeDec(x) == (x - 1) % UsizeModulus

\* String::pop: removes the last character, nothing on an empty string
StringPop(s) == IF Len(s) = 0 THEN s ELSE SubSeq(s, 1, Len(s) - 1)

\* TypingWindow::handle_events
TypingWindowHandleEvents(tw, key) ==
  CASE key.code = "Char" ->
         IF tw.cursor_index = UsizeMax /\ overflow_checks
         THEN [tw EXCEPT !.input = Append(@, key.ch), !.panic = TRUE]
         ELSE [tw EXCEPT !.input = Append(@, key.ch),
                         !.cursor_index = UsizeInc(@)]
    [] key.code = "Backspace" ->
         IF tw.cursor_index = 0 /\ overflow_checks
         THEN [tw EXCEPT !.input = StringPop(@), !.panic = TRUE]
         ELSE [tw EXCEPT !.input = StringPop(@),
                         !.cursor_index = UsizeDec(@)]
    [] OTHER -> tw

\* The indices get_paragraph styles as errors: i < cursor_index and
\* input.chars().nth(i) != Some(c).  (Sequences are 1-based here.)
ErrorIndices(tw) ==
  {i \in 1..Len(tw.generated_text) :
     /\ (i - 1) < tw.cursor_index
     /\ ~(i <= Len(tw.input) /\ tw.input[i] = tw.generated_text[i])}

\* TypingWindow::get_paragraph: one render pass over the generated text
GetParagraph(tw) ==
  [tw EXCEPT !.stats.errors_count = @ + Cardinality(ErrorIndices(tw))]

(***************************************************************************)
(* storage/storage_handler.rs                                              *)
(***************************************************************************)
\* A call of a StorageHandler method: its name, how it ended ("ok": Ok, true
\* or Some; "err": Err, false or None; "panic"), its argument or returned
\* value, and whether the operating system performed the writes it asked for.
Call(op, ok, val, io) == [op |-> op, ok |-> ok, val |-> val, io |-> io]

\* The path flush() writes to, and a path a store can be opened on.
TestPath  == "test.tukai"
OtherPath == "other.tukai"
Paths == {TestPath, OtherPath}

\* Stat records (of the fields of a Stat the average WPM and the error count
\* are kept).
StatValues ==
  {[average_wpm |-> 80, errors_count |-> 5],
   [average_wpm |-> 40, errors_count |-> 0]}

\* enum StorageDataType, enum StorageDataValue: the variants and their
\* bincode variant indices
StorageDataTypes == {"Stats", "Activities"}
KeyTag(k) == IF k = "Stats" THEN 0 ELSE 1
VariantTag(v) == IF v = "Stats" THEN 0 ELSE 1
TagKey(t) == IF t = 0 THEN "Stats" ELSE "Activities"
TagVariant(t) == IF t = 0 THEN "Stats" ELSE "Activites"

\* HashMap::new()
EmptyData == [k \in {} |-> 0]

\* StorageDataValue::Stats(Vec), StorageDataValue::Activites(Vec)
DataValue(variant, items) == [variant |-> variant, items |-> items]

\* The map default() builds: both keys, each with an empty Vec
DefaultData ==
  ("Stats" :> DataValue("Stats", <<>>)) @@
  ("Activities" :> DataValue("Activites", <<>>))

\* The orders in which a HashMap's entries can be iterated
IterationOrders(data) ==
  {o \in [1..Cardinality(DOMAIN data) -> DOMAIN data] :
     \A i, j \in DOMAIN o : i # j => o[i] # o[j]}

\* bincode of one element of a Vec: a Stat is its fields in order, an
\* activity one word
ItemBytes(variant, item) ==
  IF variant = "Stats" THEN <<item.average_wpm, item.errors_count>> ELSE <<item>>

RECURSIVE ItemsBytes(_, _)
ItemsBytes(variant, items) ==
  IF items = <<>> THEN <<>>
  ELSE ItemBytes(variant, Head(items)) \o ItemsBytes(variant, Tail(items))

\* bincode of one map entry: key variant index, value variant index, Vec
\* length, elements
EntryBytes(k, v) ==
  <<KeyTag(k), VariantTag(v.variant), Len(v.items)>> \o ItemsBytes(v.variant, v.items)

RECURSIVE EntriesBytes(_, _)
EntriesBytes(data, order) ==
  IF order = <<>> THEN <<>>
  ELSE EntryBytes(Head(order), data[Head(order)]) \o EntriesBytes(data, Tail(order))

\* bincode::serialize(&data): entry count, then the entries as iterated
Serialize(data, order) == <<Len(order)>> \o EntriesBytes(data, order)

DecodeError == [ok |-> FALSE]

\* bincode: n elements of a Vec read from position pos
RECURSIVE ReadItems(_, _, _, _)
ReadItems(b, pos, n, variant) ==
  IF n = 0 THEN [ok |-> TRUE, items |-> <<>>, pos |-> pos]
  ELSE LET width == IF variant = "Stats" THEN 2 ELSE 1
       IN  IF pos + width - 1 > Len(b) THEN DecodeError
           ELSE LET item == IF variant = "Stats"
                            THEN [average_wpm |-> b[pos], errors_count |-> b[pos + 1]]
                            ELSE b[pos]
                    rest == ReadItems(b, pos + width, n - 1, variant)
                IN  IF rest.ok
                    THEN [ok |-> TRUE, items |-> <<item>> \o rest.items, pos |-> rest.pos]
                    ELSE DecodeError

\* bincode: n map entries read from position pos into the map acc (a key
\* read twice keeps the later value, as HashMap::insert does)
RECURSIVE ReadEntries(_, _, _, _)
ReadEntries(b, pos, n, acc) ==
  IF n = 0 THEN [ok |-> TRUE, data |-> acc]
  ELSE IF pos + 2 > Len(b) THEN DecodeError
  ELSE IF b[pos] \notin {0, 1} \/ b[pos + 1] \notin {0, 1} THEN DecodeError
  ELSE LET k == TagKey(b[pos])
           variant == TagVariant(b[pos + 1])
           items == ReadItems(b, pos + 3, b[pos + 2], variant)
       IN  IF ~items.ok THEN DecodeError
           ELSE ReadEntries(b, items.pos, n - 1,
                            (k :> DataValue(variant, items.items)) @@ acc)

\* bincode::deserialize::<StorageData>(&bytes)
Deserialize(b) ==
  IF Len(b) = 0 THEN DecodeError ELSE ReadEntries(b, 2, b[1], EmptyData)

\* A file: absent, or its bytes
NoFile == [exists |-> FALSE, bytes |-> <<>>]
File(bytes) == [exists |-> TRUE, bytes |-> bytes]

\* FileHandler::read_bytes_from_file: the whole file, or an error
ReadBytesFromFile(fsys, path) ==
  IF fsys[path].exists THEN [ok |-> TRUE, bytes |-> fsys[path].bytes]
  ELSE [ok |-> FALSE, bytes |-> <<>>]

\* FileHandler::write_bytes_into_file: overwrites the file in one write; io_ok
\* is whether the operating system performs the write
WriteBytesIntoFile(fsys, path, bytes, io_ok) ==
  IF io_ok THEN [ok |-> TRUE, fs |-> [fsys EXCEPT ![path] = File(bytes)]]
  ELSE [ok |-> FALSE, fs |-> fsys]

\* StorageHandler::new
StorageHandlerNew(path) == [file_path |-> path, data |-> EmptyData]

\* default() without the insert of the Activities key
StorageHandlerDefaultStatsOnly(sh, fsys, order, io_ok) ==
  LET w == WriteBytesIntoFile(fsys, sh.file_path,
                              Serialize("Stats" :> DataValue("Stats", <<>>), <<"Stats">>),
                              io_ok)
  IN  [ok |-> w.ok, store |-> sh, fs |-> w.fs]

\* StorageHandler::default
StorageHandlerDefault(sh, fsys, order, io_ok) ==
  LET w == WriteBytesIntoFile(fsys, sh.file_path, Serialize(DefaultData, order), io_ok)
  IN  [ok |-> w.ok, store |-> sh, fs |-> w.fs]

\* StorageHandler::init
StorageHandlerInit(sh, fsys) ==
  LET r == ReadBytesFromFile(fsys, sh.file_path)
  IN  IF r.ok
      THEN LET d == Deserialize(r.bytes)
           IN  IF d.ok THEN [panic |-> FALSE, store |-> [sh EXCEPT !.data = d.data]]
               ELSE [panic |-> TRUE, store |-> sh]
      ELSE [panic |-> FALSE, store |-> sh]

\* StorageHandler::get_data_stats, get_data_stats_mut
HasStats(sh) == "Stats" \in DOMAIN sh.data /\ sh.data["Stats"].variant = "Stats"
GetDataStats(sh) ==
  IF HasStats(sh) THEN [some |-> TRUE, stats |-> sh.data["Stats"].items]
  ELSE [some |-> FALSE, stats |-> <<>>]

Reverse(s) == [i \in 1..Len(s) |-> s[Len(s) + 1 - i]]

\* StorageHandler::get_data_stats_reversed
GetDataStatsReversed(sh) ==
  IF HasStats(sh) THEN [some |-> TRUE, stats |-> Reverse(sh.data["Stats"].items)]
  ELSE [some |-> FALSE, stats |-> <<>>]

\* StorageHandler::load
StorageHandlerLoad(sh, fsys) ==
  LET r == ReadBytesFromFile(fsys, sh.file_path)
      d == Deserialize(r.bytes)
  IN  IF r.ok /\ d.ok THEN [panic |-> FALSE, data |-> d.data]
      ELSE [panic |-> TRUE, data |-> EmptyData]

\* The path flush() hands to write_bytes_into_file
FlushPath(sh) == TestPath

\* StorageHandler::flush
StorageHandlerFlush(sh, fsys, order, io_ok) ==
  WriteBytesIntoFile(fsys, FlushPath(sh), Serialize(sh.data, order), io_ok)

\* StorageHandler::insert_into_stats
InsertIntoStats(sh, fsys, stat, order, io_ok) ==
  IF HasStats(sh)
  THEN LET pushed == [sh EXCEPT !.data["Stats"].items = Append(@, stat)]
           w == StorageHandlerFlush(pushed, fsys, order, io_ok)
       IN  [ret |-> w.ok, store |-> pushed, fs |-> w.fs]
  ELSE [ret |-> FALSE, store |-> sh, fs |-> fsys]

\* Files a run can find on disk: none, a store written by an earlier run,
\* bytes that are no store.
CorruptBytes == <<9>>
InitialFiles ==
  {NoFile, File(CorruptBytes), File(Serialize(DefaultData, <<"Stats", "Activities">>))}

(***************************************************************************)
(* TypingScreen: the typing session app.rs calls.  Its source is not among *)
(* the files; the operators below follow the specification text (sections  *)
(* 3, 4.1, 4.2, 4.3).                                                      *)
(***************************************************************************)
TerminalStates == {"Completed", "TimedOut"}

\* start(duration): fresh text, empty input, cursor 0, state Idle
TypingScreenNew(text) ==
  [generated_text   |-> text,
   input            |-> <<>>,
   cursor_index     |-> 0,
   state            |-> "Idle",
   time_secs        |-> 0,
   is_popup_visible |-> FALSE,
   is_active        |-> TRUE,
   finalized        |-> FALSE]

\* is_running()
IsRunning(ts) == ts.state = "Running"

\* get_remaining_time(): remaining(total) = max(0, total - elapsed)
GetRemainingTime(ts, total) ==
  IF total > ts.time_secs THEN total - ts.time_secs ELSE 0

\* push_char(c) without the test for a terminal state
PushCharUnguarded(ts, c) ==
  LET cursor == ts.cursor_index + 1
  IN  [ts EXCEPT !.input = Append(@, c),
                 !.cursor_index = cursor,
                 !.state = IF cursor = Len(ts.generated_text)
                           THEN "Completed" ELSE "Running"]

\* push_char(c): nothing in a terminal state; else the character is
\* appended, the cursor advances, the first keystroke starts the session and
\* reaching the end of the text completes it
PushChar(ts, c) ==
  IF ts.state \in TerminalStates THEN ts
  ELSE LET cursor == ts.cursor_index + 1
       IN  [ts EXCEPT !.input = Append(@, c),
                      !.cursor_index = cursor,
                      !.state = IF cursor = Len(ts.generated_text)
                                THEN "Completed" ELSE "Running"]

\* pop_char(): nothing at cursor 0; else the last character is removed
PopChar(ts) ==
  IF ts.cursor_index = 0 THEN ts
  ELSE [ts EXCEPT !.input = SubSeq(@, 1, Len(@) - 1),
                  !.cursor_index = @ - 1]

\* handle_events(key) -> consumed: character keys and backspace belong to
\* the session.  Of any other key the screen may report either answer
\* (consumes), and the session is as it was.
TypingScreenHandleEvents(ts, key, consumes) ==
  CASE key.code = "Char" -> [ts |-> PushChar(ts, key.ch), consumed |-> TRUE]
    [] key.code = "Backspace" -> [ts |-> PopChar(ts), consumed |-> TRUE]
    [] OTHER -> [ts |-> ts, consumed |-> consumes]

\* finalize() -> Stat: error count = positions typed wrong, average WPM =
\* (correct / 5) / (elapsed / 60), in whole numbers
Finalize(ts) ==
  LET typed == 1..ts.cursor_index
      wrong == {i \in typed : ts.input[i] # ts.generated_text[i]}
      correct == Cardinality(typed) - Cardinality(wrong)
  IN  [average_wpm  |-> IF ts.time_secs = 0 THEN 0
                        ELSE (12 * correct) \div ts.time_secs,
       errors_count |-> Cardinality(wrong)]

\* The order a flush iterates the map in
KeyOrder(data, rev) ==
  SelectSeq(IF rev THEN <<"Activities", "Stats">> ELSE <<"Stats", "Activities">>,
            LAMBDA k : k \in DOMAIN data)

\* stop(storage_handler): tick(elapsed, total) has found no time left: a
\* Running session becomes TimedOut, is finalized once, and its record is
\* inserted into the store
TypingScreenStop(ts, sh, fsys, env) ==
  IF ts.state = "Running" /\ ~ts.finalized
  THEN LET r == InsertIntoStats(sh, fsys, Finalize(ts),
                                KeyOrder(sh.data, env.rev), env.io_ok)
       IN  [ts    |-> [ts EXCEPT !.state = "TimedOut",
                                 !.finalized = TRUE,
                                 !.is_popup_visible = TRUE],
            store |-> r.store,
            fs    |-> r.fs]
  ELSE [ts |-> ts, store |-> sh, fs |-> fsys]

\* reset(): start() again, with a fresh text
TypingScreenReset(ts, text) == TypingScreenNew(text)

\* hide(): clears the popup of the screen being left
TypingScreenHide(ts) == [ts EXCEPT !.is_popup_visible = FALSE]

\* toggle_active()
ToggleActive(ts) == [ts EXCEPT !.is_active = ~@]

\* The typing durations, in seconds (ticks)
TypingDurations == {MinDuration, MinDuration + 1}

\* TukaiConfig::switch_typing_duration: the cyclic next of the durations
SwitchTypingDuration(d) == IF d = MinDuration THEN MinDuration + 1 ELSE MinDuration

(***************************************************************************)
(* app.rs                                                                  *)
(***************************************************************************)
TickEvent == Key("Tick", "", FALSE)

\* The characters the control dispatch names, and one it does not
ControlChars == {"r", "l", "h", "c", "d", "t", "s", "p", "a"}

\* The keys without modifier: the character the user types, and the rest
TukaiPlainKeys == {k \in PlainKeys : k.code = "Char" => k.ch = "a"}

TukaiKeys ==
  TukaiPlainKeys
  \cup {Key("Char", c, TRUE) : c \in ControlChars}
  \cup {Key("Left", "", TRUE)}

TukaiEvents == TukaiKeys \cup {TickEvent}

\* Tukai::try_new; duration is what storage_handler.get_typing_duration()
\* returns, the duration a former run saved
TukaiTryNew(fsys, path, text, duration) ==
  LET r == StorageHandlerInit(StorageHandlerNew(path), fsys)
  IN  [config          |-> [typing_duration |-> duration],
       storage_handler |-> r.store,
       is_exit         |-> FALSE,
       time_secs       |-> 0,
       active_screen   |-> "Typing",
       typing_screen   |-> TypingScreenNew(text),
       stats_screen    |-> [is_popup_visible |-> FALSE],
       panicked        |-> r.panic]

\* The value of the variable while no Tukai runs
TukaiIdle == TukaiTryNew([p \in Paths |-> NoFile], TestPath, <<>>, MinDuration)

\* The Tick arm without the test of is_running
TukaiTickUngated(t) == [t EXCEPT !.time_secs = @ + 1]

\* Tukai::run, the Tick arm
TukaiTick(t) ==
  IF IsRunning(t.typing_screen) THEN [t EXCEPT !.time_secs = @ + 1] ELSE t

\* Tukai::draw, lines 124-130: the typing screen is inactive exactly while
\* its popup is visible
DrawActive(ts) ==
  IF ts.is_popup_visible
  THEN (IF ts.is_active THEN ToggleActive(ts) ELSE ts)
  ELSE (IF ~ts.is_active THEN ToggleActive(ts) ELSE ts)

\* Tukai::draw
TukaiDraw(t, fsys, env) ==
  IF t.active_screen = "Typing"
  THEN LET ts == [DrawActive(t.typing_screen) EXCEPT !.time_secs = t.time_secs]
       IN  IF GetRemainingTime(ts, t.config.typing_duration) = 0
           THEN LET r == TypingScreenStop(ts, t.storage_handler, fsys, env)
                IN  [tukai |-> [t EXCEPT !.typing_screen = r.ts,
                                         !.storage_handler = r.store],
                     fs    |-> r.fs]
           ELSE [tukai |-> [t EXCEPT !.typing_screen = ts], fs |-> fsys]
  ELSE [tukai |-> t, fs |-> fsys]

\* Tukai::handle_screen_events
HandleScreenEvents(t, key, env) ==
  IF t.active_screen = "Typing"
  THEN LET r == TypingScreenHandleEvents(t.typing_screen, key, env.consumes)
       IN  [tukai |-> [t EXCEPT !.typing_screen = r.ts], consumed |-> r.consumed]
  ELSE [tukai |-> t, consumed |-> FALSE]

\* reset() without the assignment to time_secs
TukaiResetKeepsTime(t, env) ==
  [t EXCEPT !.typing_screen = TypingScreenReset(@, env.text)]

\* Tukai::reset
TukaiReset(t, env) ==
  [t EXCEPT !.time_secs = 0,
            !.typing_screen = TypingScreenReset(@, env.text)]

\* exit() without its flush
TukaiExitNoFlush(t, fsys, env) ==
  [tukai |-> [t EXCEPT !.is_exit = TRUE], fs |-> fsys]

\* Tukai::exit: the flag, then the flush, whose failure panics (expect)
TukaiExit(t, fsys, env) ==
  LET w == StorageHandlerFlush(t.storage_handler, fsys,
                               KeyOrder(t.storage_handler.data, env.rev), env.io_ok)
  IN  [tukai |-> [t EXCEPT !.is_exit = TRUE, !.panicked = ~w.ok], fs |-> w.fs]

\* Tukai::switch_active_screen
SwitchActiveScreen(t, switch_to_screen) ==
  LET hidden == IF switch_to_screen = "Stats"
                THEN [t EXCEPT !.typing_screen = TypingScreenHide(@)]
                ELSE [t EXCEPT !.stats_screen.is_popup_visible = FALSE]
  IN  [hidden EXCEPT !.active_screen = switch_to_screen]

\* Tukai::handle_events, lines 200-247: keys with the control modifier.  Of
\* the configuration the typing duration is kept; the background, the layout
\* and the language, which Ctrl-t, Ctrl-s and Ctrl-p change, touch no state
\* the session, the clock, the screens or the stats depend on.  The setters
\* of the store these commands call (set_typing_duration, set_transparent_bg,
\* set_layout, set_language_index) are not among the sources: they are taken
\* to leave the stats of the map and the file as they were.
HandleControl(t, fsys, key, env) ==
  IF key.code # "Char" THEN [tukai |-> t, fs |-> fsys]
  ELSE CASE key.ch = "r" -> [tukai |-> TukaiReset(t, env), fs |-> fsys]
         [] key.ch = "l" -> [tukai |-> SwitchActiveScreen(t, "Stats"), fs |-> fsys]
         [] key.ch = "h" -> [tukai |-> SwitchActiveScreen(t, "Typing"), fs |-> fsys]
         [] key.ch = "c" -> TukaiExit(t, fsys, env)
         [] key.ch = "d" ->
              [tukai |-> TukaiReset(
                           [t EXCEPT !.config.typing_duration = SwitchTypingDuration(@)],
                           env),
               fs |-> fsys]
         [] key.ch = "t" -> [tukai |-> t, fs |-> fsys]
         [] key.ch = "s" -> [tukai |-> t, fs |-> fsys]
         [] key.ch = "p" -> [tukai |-> TukaiReset(t, env), fs |-> fsys]
         [] OTHER -> [tukai |-> t, fs |-> fsys]

\* handle_events without the return that ends the control block
TukaiHandleEventsFallThrough(t, fsys, key, env) ==
  LET c == IF key.ctrl THEN HandleControl(t, fsys, key, env)
           ELSE [tukai |-> t, fs |-> fsys]
      s == HandleScreenEvents(c.tukai, key, env)
  IN  IF s.consumed THEN [tukai |-> s.tukai, fs |-> c.fs]
      ELSE IF key.code = "Esc" THEN TukaiExit(s.tukai, c.fs, env)
      ELSE IF key.code = "Left"
           THEN [tukai |-> [s.tukai EXCEPT !.active_screen = "Typing"], fs |-> c.fs]
      ELSE IF key.code = "Right"
           THEN [tukai |-> [s.tukai EXCEPT !.active_screen = "Stats"], fs |-> c.fs]
      ELSE [tukai |-> s.tukai, fs |-> c.fs]

\* handle_events without the return on a key the screen consumed
TukaiHandleEventsNoEarlyReturn(t, fsys, key, env) ==
  IF key.ctrl THEN HandleControl(t, fsys, key, env)
  ELSE LET s == HandleScreenEvents(t, key, env)
       IN  IF key.code = "Esc" THEN TukaiExit(s.tukai, fsys, env)
           ELSE IF key.code = "Left"
                THEN [tukai |-> [s.tukai EXCEPT !.active_screen = "Typing"], fs |-> fsys]
           ELSE IF key.code = "Right"
                THEN [tukai |-> [s.tukai EXCEPT !.active_screen = "Stats"], fs |-> fsys]
           ELSE [tukai |-> s.tukai, fs |-> fsys]

\* Tukai::handle_events
TukaiHandleEvents(t, fsys, key, env) ==
  IF key.ctrl THEN HandleControl(t, fsys, key, env)
  ELSE LET s == HandleScreenEvents(t, key, env)
       IN  IF s.consumed THEN [tukai |-> s.tukai, fs |-> fsys]
           ELSE IF key.code = "Esc" THEN TukaiExit(s.tukai, fsys, env)
           ELSE IF key.code = "Left"
                THEN [tukai |-> [s.tukai EXCEPT !.active_screen = "Typing"], fs |-> fsys]
           ELSE IF key.code = "Right"
                THEN [tukai |-> [s.tukai EXCEPT !.active_screen = "Stats"], fs |-> fsys]
           ELSE [tukai |-> s.tukai, fs |-> fsys]

\* Tukai::run, one iteration of the loop: the event, then the render pass
TukaiRunStep(t, fsys, ev, env) ==
  LET h == IF ev = TickEvent THEN [tukai |-> TukaiTick(t), fs |-> fsys]
           ELSE TukaiHandleEvents(t, fsys, ev, env)
  IN  IF h.tukai.panicked THEN h ELSE TukaiDraw(h.tukai, h.fs, env)

\* The keys whose command resets the session
ResetKeys == {Key("Char", c, TRUE) : c \in {"r", "d", "p"}}

\* The texts the generator produces for Tukai
TukaiTexts == {[i \in 1..TextLen |-> IF i % 2 = 1 THEN "a" ELSE "b"]}

\* What a step leaves undetermined: the order in which a flush iterates the
\* HashMap, whether the operating system performs a write, the text a reset
\* generates, the answer of the typing screen on a key that is not its own.
Envs == [rev : BOOLEAN, io_ok : BOOLEAN, text : TukaiTexts, consumes : BOOLEAN]

\* The keys without the control modifier that navigate when left unconsumed
NavigationKeys == {Key(c, "", FALSE) : c \in {"Esc", "Left", "Right"}}


(***************************************************************************)
(* terminal.rs                                                             *)
(***************************************************************************)
\* App::new
AppNew(text) ==
  [is_exit       |-> FALSE,
   has_done      |-> FALSE,
   active_window |-> "Typing",
   typing_window |-> TypingWindowDefault(text),
   panicked      |-> FALSE]

\* Window::render of the typing window.  The trait with its provided
\* method is not among the sources: the render either builds the paragraph
\* with get_paragraph, the one function that builds it, or does not call it.
WindowRender(tw) == IF render_paragraph THEN GetParagraph(tw) ELSE tw

\* App::draw: renders the active window
AppDraw(a) ==
  IF a.active_window = "Typing"
  THEN [a EXCEPT !.typing_window = WindowRender(@)]
  ELSE a

\* App::run, lines 76-78: String::len compares the lengths in bytes
AppCheckDone(a) ==
  IF StringLen(a.typing_window.generated_text) = StringLen(a.typing_window.input)
  THEN [a EXCEPT !.has_done = TRUE]
  ELSE a

\* App::handle_window_events
AppHandleWindowEvents(a, key) ==
  IF a.active_window = "Typing"
  THEN LET tw == TypingWindowHandleEvents(a.typing_window, key)
       IN  [a EXCEPT !.typing_window = tw, !.panicked = tw.panic]
  ELSE a

\* App::handle_events: poll; on a key, navigation first, then the window
AppHandleEvents(a, ev) ==
  IF ev = NoEvent THEN a
  ELSE IF ev.code = "Esc" THEN [a EXCEPT !.is_exit = TRUE]
  ELSE LET nav == IF ev.code = "Left" THEN [a EXCEPT !.active_window = "Typing"]
                  ELSE IF ev.code = "Right" THEN [a EXCEPT !.active_window = "Stats"]
                  ELSE a
       IN  AppHandleWindowEvents(nav, ev)

\* App::run: the part of the loop from one handle_events to the next: the
\* event is handled, and unless the loop ends the next iteration renders and
\* tests for completion.
AppRunStep(a, ev) ==
  LET h == AppHandleEvents(a, ev)
  IN  IF h.is_exit \/ h.panicked THEN h ELSE AppCheckDone(AppDraw(h))

AppEvents == PlainKeys \cup {NoEvent}

\* The state when the loop first waits for an event: App::new, the first
\* render and the first completion test.
AppInit ==
  /\ overflow_checks \in BOOLEAN
  /\ render_paragraph \in BOOLEAN
  /\ \E text \in StringsOfLen(TextLen) : app = AppCheckDone(AppDraw(AppNew(text)))
  /\ last_event = NoEvent
  /\ store = StorageHandlerNew(TestPath)
  /\ fs = [p \in Paths |-> NoFile]
  /\ call = Call("new", "ok", <<>>, TRUE)
  /\ defaulted = FALSE
  /\ tukai = TukaiIdle
  /\ inserted = 0
  /\ nav_consumed = FALSE

\* The cursors the model follows: at most MaxInput steps above 0 or, wrapped
\* around, below it
CursorFollowed(c) == c <= MaxInput \/ c >= UsizeModulus - MaxInput

AppRun ==
  /\ ~app.is_exit /\ ~app.panicked
  /\ \E ev \in AppEvents :
       /\ ev.code = "Char" => Len(app.typing_window.input) < MaxInput
       /\ app' = AppRunStep(app, ev)
       /\ last_event' = ev
  /\ app'.typing_window.stats.errors_count <= MaxErrors
  /\ CursorFollowed(app'.typing_window.cursor_index)
  /\ UNCHANGED <<overflow_checks, render_paragraph>>
  /\ UNCHANGED <<storeVars, fs, tukaiVars>>

AppNext == AppRun

SpecApp == AppInit /\ [][AppNext]_vars

(***************************************************************************)
(* The store driven through its methods the way Tukai::try_new drives it   *)
(* (new(path).init()) and the way its tests do (new(path).default()        *)
(* .init(), then insert_into_stats, flush, load).                          *)
(***************************************************************************)
\* init() has returned on this store and the process is alive
Ready == call.op \notin {"new", "default"} /\ call.ok # "panic"

StoreInit ==
  /\ app = AppNew(<<>>)
  /\ overflow_checks = FALSE
  /\ render_paragraph = FALSE
  /\ last_event = NoEvent
  /\ fs \in [Paths -> InitialFiles]
  /\ \E path \in Paths : store = StorageHandlerNew(path)
  /\ call = Call("new", "ok", <<>>, TRUE)
  /\ defaulted = FALSE
  /\ tukai = TukaiIdle
  /\ inserted = 0
  /\ nav_consumed = FALSE

\* StorageHandler::new(path): a process starts and constructs its store
SNew ==
  /\ UNCHANGED <<appVars, last_event, tukaiVars>>
  /\ call.op # "new"
  /\ \E path \in Paths : store' = StorageHandlerNew(path)
  /\ call' = Call("new", "ok", <<>>, TRUE)
  /\ defaulted' = FALSE
  /\ UNCHANGED fs

\* .default()
SDefault ==
  /\ UNCHANGED <<appVars, last_event, tukaiVars>>
  /\ call.op = "new"
  /\ \E order \in IterationOrders(DefaultData), io_ok \in BOOLEAN :
       LET r == StorageHandlerDefault(store, fs, order, io_ok)
       IN  /\ store' = r.store
           /\ fs' = r.fs
           /\ call' = Call("default", IF r.ok THEN "ok" ELSE "err", <<>>, io_ok)
           /\ defaulted' = r.ok

\* .init()
SInit ==
  /\ UNCHANGED <<appVars, last_event, tukaiVars>>
  /\ call.op = "new" \/ (call.op = "default" /\ call.ok = "ok")
  /\ LET r == StorageHandlerInit(store, fs)
     IN  /\ store' = r.store
         /\ call' = Call("init", IF r.panic THEN "panic" ELSE "ok", <<>>, TRUE)
  /\ UNCHANGED <<fs, defaulted>>

\* insert_into_stats(&stat)
SInsert ==
  /\ UNCHANGED <<appVars, last_event, tukaiVars>>
  /\ Ready
  /\ Len(GetDataStats(store).stats) < MaxStats
  /\ \E stat \in StatValues, order \in IterationOrders(store.data), io_ok \in BOOLEAN :
       LET r == InsertIntoStats(store, fs, stat, order, io_ok)
       IN  /\ store' = r.store
           /\ fs' = r.fs
           /\ call' = Call("insert", IF r.ret THEN "ok" ELSE "err", stat, io_ok)
  /\ UNCHANGED defaulted

\* flush()
SFlush ==
  /\ UNCHANGED <<appVars, last_event, tukaiVars>>
  /\ Ready
  /\ \E order \in IterationOrders(store.data), io_ok \in BOOLEAN :
       LET w == StorageHandlerFlush(store, fs, order, io_ok)
       IN  /\ fs' = w.fs
           /\ call' = Call("flush", IF w.ok THEN "ok" ELSE "err", <<>>, io_ok)
  /\ UNCHANGED <<store, defaulted>>

\* load()
SLoad ==
  /\ UNCHANGED <<appVars, last_event, tukaiVars>>
  /\ Ready
  /\ LET r == StorageHandlerLoad(store, fs)
     IN  call' = Call("load", IF r.panic THEN "panic" ELSE "ok", r.data, TRUE)
  /\ UNCHANGED <<store, fs, defaulted>>

\* get_data_stats_reversed()
SGetReversed ==
  /\ UNCHANGED <<appVars, last_event, tukaiVars>>
  /\ Ready
  /\ LET r == GetDataStatsReversed(store)
     IN  call' = Call("get_reversed", IF r.some THEN "ok" ELSE "err", r.stats, TRUE)
  /\ UNCHANGED <<store, fs, defaulted>>

\* The round trip: flush(), then a fresh new(file_path).init() on the path
\* the store was constructed on (Tukai::exit followed by Tukai::try_new in
\* the next run).
SReopen ==
  /\ UNCHANGED <<appVars, last_event, tukaiVars>>
  /\ Ready
  /\ \E order \in IterationOrders(store.data) :
       LET w == StorageHandlerFlush(store, fs, order, TRUE)
           r == StorageHandlerInit(StorageHandlerNew(store.file_path), w.fs)
       IN  /\ fs' = w.fs
           /\ store' = r.store
           /\ call' = Call("reopen", IF r.panic THEN "panic" ELSE "ok", <<>>, TRUE)
  /\ defaulted' = FALSE

StoreNext ==
  \/ SNew
  \/ SDefault
  \/ SInit
  \/ SInsert
  \/ SFlush
  \/ SLoad
  \/ SGetReversed
  \/ SReopen

SpecStore == StoreInit /\ [][StoreNext]_vars

(***************************************************************************)
(* Tukai::try_new followed by Tukai::run.                                  *)
(***************************************************************************)
\* The path the configuration names for the store (TukaiConfig::get_file_path)
ConfigFilePath == OtherPath

TukaiInit ==
  /\ app = AppNew(<<>>)
  /\ overflow_checks = FALSE
  /\ render_paragraph = FALSE
  /\ store = StorageHandlerNew(TestPath)
  /\ call = Call("new", "ok", <<>>, TRUE)
  /\ defaulted = FALSE
  /\ last_event = NoEvent
  /\ inserted = 0
  /\ nav_consumed = FALSE
  /\ \E file \in InitialFiles, text \in TukaiTexts, duration \in TypingDurations :
       /\ fs = [p \in Paths |-> IF p = ConfigFilePath THEN file ELSE NoFile]
       /\ tukai = TukaiTryNew(fs, ConfigFilePath, text, duration)

\* What one iteration of Tukai::run on event ev can leave, over what the
\* environment leaves undetermined
\* The typing screen is asked for its answer on ev: the key has no control
\* modifier, is not the session's own, and the typing screen is active
Offered(ev) ==
  /\ ev # TickEvent /\ ~ev.ctrl
  /\ ev.code \notin {"Char", "Backspace"}
  /\ tukai.active_screen = "Typing"

\* The environments of an iteration on ev; where the screen is not asked for
\* an answer there is none to choose
EnvsOf(ev) == {env \in Envs : env.consumes => Offered(ev)}

\* Iteration on ev under env: the screen reported a navigation key consumed
NavConsumed(ev, env) ==
  ev \in NavigationKeys /\ HandleScreenEvents(tukai, ev, env).consumed

\* What one iteration of Tukai::run on event ev can leave
Outcome(ev, env) ==
  [step |-> TukaiRunStep(tukai, fs, ev, env), nav |-> NavConsumed(ev, env)]

TukaiOutcomes(ev) == {Outcome(ev, env) : env \in EnvsOf(ev)}

\* The model follows the iteration that leaves o: the loop is running, and
\* the clock and the store stay within the bounds
Allowed(o) ==
  /\ ~tukai.is_exit /\ ~tukai.panicked
  /\ o.step.tukai.time_secs <= MaxTime
  /\ Len(GetDataStats(o.step.tukai.storage_handler).stats) <= MaxRecords

\* The state after the iteration on ev that leaves o
After(ev, o) ==
  LET before == Len(GetDataStats(tukai.storage_handler).stats)
      after == Len(GetDataStats(o.step.tukai.storage_handler).stats)
  IN  [tukai        |-> o.step.tukai,
       fs           |-> o.step.fs,
       inserted     |-> (IF ev \in ResetKeys THEN 0 ELSE inserted) + (after - before),
       nav_consumed |-> (nav_consumed \/ o.nav)]

\* The step ends in the state n
Reaches(n) ==
  /\ tukai' = n.tukai
  /\ fs' = n.fs
  /\ inserted' = n.inserted
  /\ nav_consumed' = n.nav_consumed

\* The step is an iteration of Tukai::run on event ev that leaves o
TukaiTakes(ev, o) == Allowed(o) /\ Reaches(After(ev, o))

\* One iteration of Tukai::run on event ev
TukaiStep(ev, env) == TukaiTakes(ev, Outcome(ev, env))

\* The states one iteration of Tukai::run can end in, over the events
TukaiSuccessors ==
  UNION {{After(ev, o) : o \in {x \in TukaiOutcomes(ev) : Allowed(x)}} :
           ev \in TukaiEvents}

TukaiRun ==
  /\ \E n \in TukaiSuccessors : Reaches(n)
  /\ UNCHANGED <<appVars, storeVars, last_event>>

TukaiNext == TukaiRun

SpecTukai == TukaiInit /\ [][TukaiNext]_vars

(***************************************************************************)
(* Claims about the typing session (SpecApp).                              *)
(***************************************************************************)
TW == app.typing_window

\* The loop consumed event ev in this step and the typing window was active
\* when it did.
TypingReceives(code) ==
  /\ last_event'.code = code
  /\ app.active_window = "Typing"
  /\ ~app.is_exit /\ ~app.panicked

\* C1: a render pass with no key event since the previous render pass leaves
\* error_count as it was after the previous render pass.
C1_RenderTwiceKeepsErrorCount ==
  [][(last_event' = NoEvent)
       => app'.typing_window.stats.errors_count = TW.stats.errors_count]_vars

\* C2: a backspace received while the cursor is 0 changes neither the input
\* buffer, nor the cursor, nor the error counter, and does not panic.
C2_BackspaceAtZeroIsNoOp ==
  [][(TypingReceives("Backspace") /\ TW.cursor_index = 0)
       => /\ app'.typing_window.input = TW.input
          /\ app'.typing_window.cursor_index = TW.cursor_index
          /\ app'.typing_window.stats.errors_count = TW.stats.errors_count
          /\ ~app'.panicked]_vars

\* C9: a character key received after the session is complete changes
\* neither the input buffer, nor the cursor, nor the error counter.
C9_CharAfterTerminalIsNoOp ==
  [][(TypingReceives("Char") /\ app.has_done)
       => /\ app'.typing_window.input = TW.input
          /\ app'.typing_window.cursor_index = TW.cursor_index
          /\ app'.typing_window.stats.errors_count = TW.stats.errors_count]_vars

\* C10: in every reachable session state error_count is at most the length
\* of the generated text.
C10_ErrorCountAtMostTextLength ==
  TW.stats.errors_count <= Len(TW.generated_text)

\* C15: in every reachable session state the cursor is at most the length of
\* the generated text and equals the length of the input buffer (it is an
\* unsigned integer, so never below 0).
C15_CursorInvariant ==
  /\ TW.cursor_index >= 0
  /\ TW.cursor_index <= Len(TW.generated_text)
  /\ TW.cursor_index = Len(TW.input)

\* The indices at which the input buffer differs from the generated text
MismatchIndices(tw) ==
  {i \in 1..Len(tw.generated_text) :
     ~(i <= Len(tw.input) /\ tw.input[i] = tw.generated_text[i])}

\* C16: when the session becomes complete by typing as many characters as
\* the generated text has, error_count is the number of indices at which the
\* final input buffer differs from the generated text.
C16_ErrorCountAtCompletion ==
  [][(/\ TypingReceives("Char") /\ ~app.has_done /\ app'.has_done
      /\ Len(app'.typing_window.input) = Len(app'.typing_window.generated_text))
       => app'.typing_window.stats.errors_count
            = Cardinality(MismatchIndices(app'.typing_window))]_vars

(***************************************************************************)
(* Claims about the stats store (SpecStore).                               *)
(***************************************************************************)
\* C4: round trip: a flush() followed by a fresh init() on the path the
\* store was constructed on yields the Stats sequence that was flushed.
C4_FlushInitRoundTrip ==
  [][(Ready /\ call'.op = "reopen" /\ call'.ok = "ok")
       => GetDataStats(store') = GetDataStats(store)]_vars

\* C5: init() on a missing backing file leaves both keys in the in-memory
\* map, each with zero records, and the file written.
C5_InitOnMissingFileSeeds ==
  [][(call'.op = "init" /\ call.op = "new" /\ ~fs[store.file_path].exists)
       => /\ store'.data = DefaultData
          /\ fs'[store.file_path].exists]_vars

\* C6: on an initialized store insert(x) returns success and appends x at the
\* end of the Stats sequence, and get_reversed() returns the records in
\* reverse insertion order.
C6_InsertAppendsAndReversedReads ==
  [][/\ (Ready /\ call'.op = "insert" /\ call'.io)
          => /\ call'.ok = "ok"
             /\ GetDataStats(store').stats
                  = Append(GetDataStats(store).stats, call'.val)
     /\ (Ready /\ call'.op = "get_reversed")
          => /\ call'.ok = "ok"
             /\ Len(call'.val) = Len(GetDataStats(store).stats)
             /\ \A i \in 1..Len(call'.val) :
                  call'.val[i] = GetDataStats(store).stats[Len(call'.val) + 1 - i]]_vars

\* Both keys of the store are in the map
BothKeys(data) == StorageDataTypes \subseteq DOMAIN data

\* C12: after default() followed by init() on the same path both keys are in
\* the data load() re-reads from the backing file, and both stay in the
\* in-memory map through every later insert() and flush().
C12_BothKeysAfterDefaultInit ==
  (defaulted /\ Ready)
    => /\ BothKeys(store.data)
       /\ call.op = "init"
            => LET l == StorageHandlerLoad(store, fs)
               IN  ~l.panic /\ BothKeys(l.data)

\* C12, witness: a store built with default() and init() took an insert and
\* then a flush.
C12_Witness ==
  /\ defaulted /\ Ready
  /\ call.op = "flush"
  /\ Len(GetDataStats(store).stats) > 0

\* C13: init() on a backing file whose bytes do not decode to the store map
\* does not panic and returns the store seeded as for an absent file: both
\* keys in the map, each with zero records, and the seeded map written.
C13_InitDecodeFailureSeeds ==
  [][(/\ call'.op = "init"
      /\ fs[store.file_path].exists
      /\ ~Deserialize(fs[store.file_path].bytes).ok)
       => /\ call'.ok = "ok"
          /\ store'.data = DefaultData
          /\ Deserialize(fs'[store.file_path].bytes).ok]_vars

\* The Stats sequence the backing file of the store decodes to
StatsOnFile(sh, fsys) ==
  LET l == StorageHandlerLoad(sh, fsys)
  IN  IF l.panic THEN <<>> ELSE GetDataStats([sh EXCEPT !.data = l.data]).stats

\* C14: insert(record) is never partial: when it returns failure the
\* in-memory Stats sequence is what it was before the call, and when it
\* returns success the record is the last of the in-memory sequence and of
\* the sequence in the backing file.
C14_InsertNeverPartial ==
  [][(Ready /\ call'.op = "insert")
       => /\ call'.ok = "err"
               => GetDataStats(store').stats = GetDataStats(store).stats
          /\ call'.ok = "ok"
               => /\ GetDataStats(store').stats
                       = Append(GetDataStats(store).stats, call'.val)
                  /\ StatsOnFile(store', fs') = GetDataStats(store').stats]_vars

(***************************************************************************)
(* Claims about the event loop of Tukai (SpecTukai).                       *)
(***************************************************************************)
TS == tukai.typing_screen

\* The step is an iteration of the loop on a key that resets the session
ResetStep == \E ev \in ResetKeys : \E env \in EnvsOf(ev) : TukaiStep(ev, env)

\* C3: once the session is Completed or TimedOut, its record has been
\* inserted into the store exactly once, and that stays so until the reset.
C3_TerminalSessionInsertedOnce ==
  TS.state \in TerminalStates => inserted = 1

\* C7: the elapsed-seconds counter never exceeds the active total duration
\* (so total - elapsed is never negative).
C7_ElapsedNeverExceedsTotal ==
  tukai.time_secs <= tukai.config.typing_duration

\* C8: a session that is Completed stays Completed and one that is TimedOut
\* stays TimedOut, whatever key or tick is consumed, until a reset.
C8_TerminalUntilReset ==
  [][(TS.state \in TerminalStates)
       => (tukai'.typing_screen.state = TS.state \/ ResetStep)]_vars

\* C8, witness: the session timed out on the typing screen, a later key made
\* the stats screen active, and the session is still TimedOut.
C8_Witness ==
  /\ TS.state = "TimedOut"
  /\ tukai.active_screen = "Stats"
  /\ ~tukai.is_exit

\* C11: a tick adds exactly one to the elapsed-seconds counter if the session
\* is Running when the tick is consumed and leaves the counter as it was
\* otherwise; a key that is not a reset never changes the counter.
C11_TickAdvancesOnlyWhileRunning ==
  [][/\ \/ tukai'.time_secs = tukai.time_secs + (IF IsRunning(TS) THEN 1 ELSE 0)
        \/ \A env \in EnvsOf(TickEvent) : ~TukaiStep(TickEvent, env)
     /\ \/ tukai'.time_secs = tukai.time_secs
        \/ \A ev \in TukaiKeys \ ResetKeys : \A env \in EnvsOf(ev) : ~TukaiStep(ev, env)]_vars

\* C11, witness: a tick was counted while the session was Running, and the
\* typing screen has rendered the counter.
C11_Witness ==
  /\ IsRunning(TS)
  /\ tukai.time_secs = 1
  /\ TS.time_secs = 1

\* C17: after the render pass of every event, whichever screen is active, no
\* session is still Running with the elapsed seconds at or past the total
\* duration: it timed out at the event at which the remaining time reached 0.
C17_NoRunningSessionOutOfTime ==
  ~(IsRunning(TS) /\ tukai.time_secs >= tukai.config.typing_duration)

\* C18: every change of the active screen hides the screen being left: after
\* a step from Typing to Stats the typing screen's popup is closed, as hide()
\* leaves it, and after a step from Stats to Typing the stats screen's is.
C18_ScreenChangeHidesScreenLeft ==
  [][/\ (tukai.active_screen = "Typing" /\ tukai'.active_screen = "Stats")
          => tukai'.typing_screen = TypingScreenHide(tukai'.typing_screen)
     /\ (tukai.active_screen = "Stats" /\ tukai'.active_screen = "Typing")
          => ~tukai'.stats_screen.is_popup_visible]_vars

\* The keys with the control modifier
ControlKeys == {k \in TukaiKeys : k.ctrl}

\* C19: a key with the control modifier never reaches a screen: whatever its
\* code and whichever screen is active, the step leaves the input buffer and
\* the cursor of the typing session as they were, or, when the key is a
\* reset command, as reset() leaves them; it never types a character.
C19_ControlKeyNeverReachesScreen ==
  [][/\ \/ /\ tukai'.typing_screen.input = TS.input
           /\ tukai'.typing_screen.cursor_index = TS.cursor_index
        \/ \A ev \in ControlKeys \ ResetKeys : \A env \in EnvsOf(ev) : ~TukaiStep(ev, env)
     /\ \/ /\ tukai'.typing_screen.input = <<>>
           /\ tukai'.typing_screen.cursor_index = 0
        \/ \A ev \in ResetKeys : \A env \in EnvsOf(ev) : ~TukaiStep(ev, env)]_vars

\* C19, witness: with characters typed and the session timed out, Ctrl-l made
\* the stats screen active (its hide() closed the popup) and the input is as
\* it was.
C19_Witness ==
  /\ tukai.active_screen = "Stats"
  /\ TS.state = "TimedOut"
  /\ ~TS.is_popup_visible
  /\ Len(TS.input) > 0
  /\ TS.cursor_index = Len(TS.input)

\* What C20 says of a step on the key ev, which has no control modifier,
\* when the active screen answers as in env
PlainKeyOutcome(ev, env) ==
  IF HandleScreenEvents(tukai, ev, env).consumed
  THEN ~tukai'.is_exit /\ tukai'.active_screen = tukai.active_screen
  ELSE CASE ev.code = "Esc" -> tukai'.is_exit
         [] ev.code = "Left" -> ~tukai'.is_exit /\ tukai'.active_screen = "Typing"
         [] ev.code = "Right" -> ~tukai'.is_exit /\ tukai'.active_screen = "Stats"
         [] OTHER -> ~tukai'.is_exit /\ tukai'.active_screen = tukai.active_screen

\* C20: a key without the control modifier goes to the active screen first:
\* consumed, it causes no exit and no change of the active screen;
\* unconsumed, Esc requests the exit, Left makes Typing the active screen,
\* Right makes Stats the active screen, and any other key changes neither.
C20_ScreenFirstThenNavigation ==
  [][\A ev \in TukaiPlainKeys : \A env \in EnvsOf(ev) :
       PlainKeyOutcome(ev, env) \/ ~TukaiStep(ev, env)]_vars

\* C20, witness: the typing screen reported a bare Esc, Left or Right
\* consumed and the loop went on with the typing screen active; later, timed
\* out with its popup open, it left a bare Right unconsumed and the stats
\* screen became active.
C20_Witness ==
  /\ nav_consumed
  /\ tukai.active_screen = "Stats"
  /\ TS.state = "TimedOut"
  /\ TS.is_popup_visible
  /\ ~tukai.is_exit

\* The keys that request the exit
CtrlC == Key("Char", "c", TRUE)
BareEsc == Key("Esc", "", FALSE)

\* The step performs the flush of exit() and nothing else on the store: the
\* file system is as one flush of the map as it was leaves it, and the
\* process dies exactly when the operating system refuses the write
OneFinalFlush ==
  \E env \in Envs :
    LET w == StorageHandlerFlush(tukai.storage_handler, fs,
                                 KeyOrder(tukai.storage_handler.data, env.rev),
                                 env.io_ok)
    IN  fs' = w.fs /\ tukai'.panicked = ~w.ok

\* C21: Ctrl-c and an unconsumed bare Esc set the exit flag; the iteration
\* that sets it performs one flush and no insertion; once the flag is set it
\* stays set and no further event is consumed, so nothing more is inserted
\* or flushed.
C21_ExitFlagsAndFlushesOnce ==
  [][/\ tukai'.is_exit \/ \A env \in EnvsOf(CtrlC) : ~TukaiStep(CtrlC, env)
     /\ \/ tukai'.is_exit
        \/ \A env \in EnvsOf(BareEsc) :
             \/ HandleScreenEvents(tukai, BareEsc, env).consumed
             \/ ~TukaiStep(BareEsc, env)
     /\ (~tukai.is_exit /\ tukai'.is_exit)
          => /\ OneFinalFlush
             /\ tukai'.storage_handler = tukai.storage_handler
             /\ inserted' = inserted
     /\ tukai.is_exit
          => /\ tukai' = tukai
             /\ fs' = fs
             /\ inserted' = inserted]_vars

\* C21, witness: the exit was requested after the session's record went into
\* the store, and the file the flush writes holds the map of the store.
C21_Witness ==
  /\ tukai.is_exit /\ ~tukai.panicked
  /\ inserted = 1
  /\ fs[FlushPath(tukai.storage_handler)].exists
  /\ Deserialize(fs[FlushPath(tukai.storage_handler)].bytes).data
       = tukai.storage_handler.data

\* The keys of the commands on the configuration that reset nothing
ConfigOnlyKeys == {Key("Char", c, TRUE) : c \in {"t", "s"}}

\* The typing session of the typing screen: its text, input, cursor, state
\* and clock, without the popup and focus flags every render pass recomputes
Session(ts) ==
  [generated_text |-> ts.generated_text,
   input          |-> ts.input,
   cursor_index   |-> ts.cursor_index,
   state          |-> ts.state,
   time_secs      |-> ts.time_secs,
   finalized      |-> ts.finalized]

\* C22: Ctrl-r, Ctrl-d and Ctrl-p, from any session state and on either
\* screen, leave the elapsed-seconds counter at 0 and the typing session as
\* a reset leaves it (Idle, nothing typed, cursor 0, not finalized), the
\* active screen as it was; Ctrl-t and Ctrl-s leave the counter, the active
\* screen and the typing session as they were.
C22_ResetCommands ==
  [][/\ \/ /\ tukai'.time_secs = 0
           /\ tukai'.active_screen = tukai.active_screen
           /\ \E text \in TukaiTexts :
                Session(tukai'.typing_screen) = Session(TypingScreenNew(text))
        \/ \A ev \in ResetKeys : \A env \in EnvsOf(ev) : ~TukaiStep(ev, env)
     /\ \/ /\ tukai'.time_secs = tukai.time_secs
           /\ tukai'.active_screen = tukai.active_screen
           /\ Session(tukai'.typing_screen) = Session(TS)
        \/ \A ev \in ConfigOnlyKeys : \A env \in EnvsOf(ev) : ~TukaiStep(ev, env)]_vars

\* C22, witness: a session timed out and left its record in the store, and a
\* reset command given on the stats screen started the next session: the
\* counter is 0 and the session Idle.
C22_Witness ==
  /\ tukai.active_screen = "Stats"
  /\ Session(TS) = Session(TypingScreenNew(TS.generated_text))
  /\ tukai.time_secs = 0
  /\ Len(GetDataStats(tukai.storage_handler).stats) = 1
  /\ ~tukai.is_exit

====
